---------------------------- MODULE Spec2Model ----------------------------
(***************************************************************************)
(* A model of src/generate_powerpoint.py: the text normalizer escape_text, *)
(* the request handler generate_pptx (validation, title slide, content     *)
(* slides with body binding and picture/table/chart insertion, save,       *)
(* registry insert) and the handler download_file.                         *)
(*                                                                         *)
(* Text is a sequence of one-character strings.  A character outside the   *)
(* model alphabet is the atom "U+<decimal code point>"; the grave accent   *)
(* is the atom "U+96".                                                     *)
(***************************************************************************)
EXTENDS Integers, Sequences, FiniteSets, TLC

VARIABLES
    text,             \* escape_text: the argument of the first call
    once,             \* escape_text(text)
    twice,            \* escape_text(escape_text(text))
    npc,              \* which of the two calls have been made
    generated_files,  \* the registry: file id -> stored buffer
    request,          \* per request: the body posted to /generate_pptx
    pc,               \* per request: the handler's position
    prs,              \* per request: the Presentation being built
    idx,              \* per request: content slides processed so far
    pptx_buffer,      \* per request: the buffer prs.save wrote
    response,         \* per request: the response returned
    download,         \* the last response of /download/<file_id>
    zero_grid_ok      \* whether the installed authoring library accepts a
                      \* table with no rows or no columns

nvars == <<text, once, twice, npc>>

rvars == <<generated_files, request, pc, prs, idx, pptx_buffer, response,
           download, zero_grid_ok>>

vars == <<text, once, twice, npc, generated_files, request, pc, prs, idx,
          pptx_buffer, response, download, zero_grid_ok>>

-----------------------------------------------------------------------------
(* Bounds of the model *)

MaxTokens == 3

MaxSlides == 2

NumRequests == 2

-----------------------------------------------------------------------------
(* Characters *)

\* the code points Python's str.isspace / regex \s accept
SpaceCodes ==
    (9..13) \cup (28..32) \cup {133, 160, 5760} \cup (8192..8202)
        \cup {8232, 8233, 8239, 8287, 12288}

\* the model alphabet, as <<character, code point>>
Alphabet ==
    { <<"\t", 9>>, <<"\n", 10>>, <<"\f", 12>>, <<"\r", 13>>, <<" ", 32>>,
      <<"#", 35>>, <<"&", 38>>, <<"*", 42>>, <<"-", 45>>, <<".", 46>>,
      <<"0", 48>>, <<"2", 50>>, <<"3", 51>>, <<";", 59>>, <<">", 62>>,
      <<"\\", 92>>, <<"a", 97>>, <<"m", 109>>, <<"p", 112>>,
      <<"t", 116>>, <<"u", 117>> }

\* chr(n)
Chr(n) ==
    IF \E p \in Alphabet : p[2] = n
    THEN (CHOOSE p \in Alphabet : p[2] = n)[1]
    ELSE "U+" \o ToString(n)

Backtick == Chr(96)

SpaceChars == { Chr(n) : n \in SpaceCodes }

IsSpace(c) == c \in SpaceChars

\* [0-9] over the model alphabet
IsAsciiDigit(c) == c \in {"0", "2", "3"}

\* the code points regex \d accepts, among those the model can produce: the
\* ASCII digits and the Kannada digits (a decimal charref over 0, 2, 3)
DigitCodes == (48..57) \cup (3302..3311)

DigitChars == { Chr(n) : n \in DigitCodes }

\* \d
IsDigit(c) == c \in DigitChars

DigitVal(c) == CASE c = "0" -> 0 [] c = "2" -> 2 [] c = "3" -> 3

\* [0-9a-fA-F] over the model alphabet
IsHex(c) == c \in {"0", "2", "3", "a"}

HexVal(c) == IF c = "a" THEN 10 ELSE DigitVal(c)

-----------------------------------------------------------------------------
(* Scanning helpers: indices are 1-based, Len(s)+1 is the end of the text *)

StartsAt(s, i, d) ==
    /\ i + Len(d) - 1 <= Len(s)
    /\ SubSeq(s, i, i + Len(d) - 1) = d

\* ^ under re.MULTILINE
AtLineStart(s, i) == i = 1 \/ s[i - 1] = "\n"

RECURSIVE SpaceEnd(_, _)
\* the end of the greedy whitespace run \s* that starts at i
SpaceEnd(s, i) ==
    IF i <= Len(s) /\ IsSpace(s[i]) THEN SpaceEnd(s, i + 1) ELSE i

RECURSIVE LineEnd(_, _)
\* the end of the greedy .* that starts at i: the next newline, or the end
LineEnd(s, i) ==
    IF i <= Len(s) /\ s[i] # "\n" THEN LineEnd(s, i + 1) ELSE i

RECURSIVE RunEnd(_, _, _)
\* the end of the greedy run c+ that starts at i
RunEnd(s, i, c) ==
    IF i <= Len(s) /\ s[i] = c THEN RunEnd(s, i + 1, c) ELSE i

RECURSIVE DigitEnd(_, _)
DigitEnd(s, i) ==
    IF i <= Len(s) /\ IsDigit(s[i]) THEN DigitEnd(s, i + 1) ELSE i

RECURSIVE AsciiDigitEnd(_, _)
AsciiDigitEnd(s, i) ==
    IF i <= Len(s) /\ IsAsciiDigit(s[i]) THEN AsciiDigitEnd(s, i + 1) ELSE i

RECURSIVE HexEnd(_, _)
HexEnd(s, i) ==
    IF i <= Len(s) /\ IsHex(s[i]) THEN HexEnd(s, i + 1) ELSE i

RECURSIVE DecValue(_, _, _)
\* int(s[i..j-1]) of decimal digits
DecValue(s, i, j) ==
    IF j <= i THEN 0 ELSE DecValue(s, i, j - 1) * 10 + DigitVal(s[j - 1])

RECURSIVE HexValue(_, _, _)
\* int(s[i..j-1], 16)
HexValue(s, i, j) ==
    IF j <= i THEN 0 ELSE HexValue(s, i, j - 1) * 16 + HexVal(s[j - 1])

-----------------------------------------------------------------------------
(* escape_text, step by step *)

RECURSIVE CloseAt(_, _, _, _)
\* the lazy (.*?) followed by the closing delimiter d: the first place at or
\* after j where d starts, with no newline before it unless re.DOTALL; 0 if none
CloseAt(s, j, d, dotall) ==
    IF j + Len(d) - 1 > Len(s) THEN 0
    ELSE IF StartsAt(s, j, d) THEN j
    ELSE IF ~dotall /\ s[j] = "\n" THEN 0
    ELSE CloseAt(s, j + 1, d, dotall)

RECURSIVE SubDelimited(_, _, _, _, _)
\* re.sub of  d(.*?)d  by \1 (keep) or by '' from position i on
SubDelimited(s, i, d, dotall, keep) ==
    IF i > Len(s) THEN << >>
    ELSE LET j == IF StartsAt(s, i, d)
                  THEN CloseAt(s, i + Len(d), d, dotall) ELSE 0
         IN  IF j > 0
             THEN (IF keep THEN SubSeq(s, i + Len(d), j - 1) ELSE << >>)
                      \o SubDelimited(s, j + Len(d), d, dotall, keep)
             ELSE <<s[i]>> \o SubDelimited(s, i + 1, d, dotall, keep)

\* re.sub(r'\*\*(.*?)\*\*', r'\1', text)
StripBold(s) == SubDelimited(s, 1, <<"*", "*">>, FALSE, TRUE)

\* re.sub(r'\*(.*?)\*', r'\1', text)
StripItalic(s) == SubDelimited(s, 1, <<"*">>, FALSE, TRUE)

RECURSIVE ReplaceAll(_, _, _, _)
\* every leftmost non-overlapping occurrence of pat replaced by rep
ReplaceAll(s, i, pat, rep) ==
    IF i > Len(s) THEN << >>
    ELSE IF StartsAt(s, i, pat)
         THEN rep \o ReplaceAll(s, i + Len(pat), pat, rep)
         ELSE <<s[i]>> \o ReplaceAll(s, i + 1, pat, rep)

\* re.sub(r'\\\\n', r'\n', text): two backslashes and n become a newline
UnescapeNewlines(s) == ReplaceAll(s, 1, <<"\\", "\\", "n">>, <<"\n">>)

\* re.sub(r'\\\\-', r'-', text): two backslashes and a hyphen become a hyphen
UnescapeHyphens(s) == ReplaceAll(s, 1, <<"\\", "\\", "-">>, <<"-">>)

RECURSIVE StripHeaders(_, _)
\* re.sub(r'^\s*#+\s*(.*)$', r'\1', text, flags=re.MULTILINE)
StripHeaders(s, i) ==
    IF i > Len(s) THEN << >>
    ELSE LET k == SpaceEnd(s, i)
             h == RunEnd(s, k, "#")
             w == SpaceEnd(s, h)
             e == LineEnd(s, w)
         IN  IF AtLineStart(s, i) /\ h > k
             THEN SubSeq(s, w, e - 1) \o StripHeaders(s, e)
             ELSE <<s[i]>> \o StripHeaders(s, i + 1)

\* re.sub(r'$$(.*?)$$$$(.*?)$$', r'\1', text): every $ is an end-of-text
\* anchor, so the pattern matches only the empty string at the end of the
\* text (and before a final newline), both groups are empty, and the
\* substitution puts the empty group 1 in place of the empty match
StripLinks(s) == s \o << >>

RECURSIVE StripBlockquotes(_, _)
\* re.sub(r'^\s*>\s*(.*)$', r'\1', text, flags=re.MULTILINE)
StripBlockquotes(s, i) ==
    IF i > Len(s) THEN << >>
    ELSE LET k == SpaceEnd(s, i)
             w == SpaceEnd(s, k + 1)
             e == LineEnd(s, w)
         IN  IF AtLineStart(s, i) /\ k <= Len(s) /\ s[k] = ">"
             THEN SubSeq(s, w, e - 1) \o StripBlockquotes(s, e)
             ELSE <<s[i]>> \o StripBlockquotes(s, i + 1)

\* re.sub of three backticks, (.*?), three backticks by '' under re.DOTALL
StripCodeBlocks(s) == SubDelimited(s, 1, <<Backtick, Backtick, Backtick>>, TRUE, FALSE)

RECURSIVE RewriteOrdered(_, _)
\* re.sub(r'^\s*\d+\.\s+(.*)$', r'- \1', text, flags=re.MULTILINE)
RewriteOrdered(s, i) ==
    IF i > Len(s) THEN << >>
    ELSE LET k == SpaceEnd(s, i)
             d == DigitEnd(s, k)
             w == SpaceEnd(s, d + 1)
             e == LineEnd(s, w)
         IN  IF /\ AtLineStart(s, i)
                /\ d > k
                /\ d <= Len(s) /\ s[d] = "."
                /\ w > d + 1
             THEN <<"-", " ">> \o SubSeq(s, w, e - 1) \o RewriteOrdered(s, e)
             ELSE <<s[i]>> \o RewriteOrdered(s, i + 1)

RECURSIVE RewriteBullets(_, _)
\* re.sub(r'^\s*\*\s+', '- ', text, flags=re.MULTILINE)
RewriteBullets(s, i) ==
    IF i > Len(s) THEN << >>
    ELSE LET k == SpaceEnd(s, i)
             w == SpaceEnd(s, k + 1)
         IN  IF /\ AtLineStart(s, i)
                /\ k <= Len(s) /\ s[k] = "*"
                /\ w > k + 1
             THEN <<"-", " ">> \o RewriteBullets(s, w)
             ELSE <<s[i]>> \o RewriteBullets(s, i + 1)

\* text.replace(r'\t', '\t'): a backslash and t become a tab
ExpandTabs(s) == ReplaceAll(s, 1, <<"\\", "t">>, <<"\t">>)

RECURSIVE DecodeUnicode(_, _)
\* re.sub(r'\\u([0-9a-fA-F]{4})', lambda m: chr(int(m.group(1), 16)), text)
DecodeUnicode(s, i) ==
    IF i > Len(s) THEN << >>
    ELSE IF /\ StartsAt(s, i, <<"\\", "u">>)
            /\ HexEnd(s, i + 2) >= i + 6
         THEN <<Chr(HexValue(s, i + 2, i + 6))>> \o DecodeUnicode(s, i + 6)
         ELSE <<s[i]>> \o DecodeUnicode(s, i + 1)

-----------------------------------------------------------------------------
(* html.unescape *)

\* html.entities.html5 restricted to the names the model alphabet can spell
Html5 ==
    (<<"a", "m", "p">> :> <<"&">>) @@ (<<"a", "m", "p", ";">> :> <<"&">>)
        @@ (<<"a", "p", ";">> :> <<Chr(8776)>>)
        @@ (<<"m", "a", "p", ";">> :> <<Chr(8614)>>)
        @@ (<<"m", "p", ";">> :> <<Chr(8723)>>)
        @@ (<<"m", "u", ";">> :> <<Chr(956)>>)
        @@ (<<"m", "u", "m", "a", "p", ";">> :> <<Chr(8888)>>)
        @@ (<<"p", "m", ";">> :> <<Chr(177)>>)
        @@ (<<"t", "a", "u", ";">> :> <<Chr(964)>>)

\* html._invalid_codepoints
InvalidCodepoints ==
    (1..8) \cup (14..31) \cup (127..159) \cup (64976..65007) \cup {11}
        \cup { k * 65536 + 65534 : k \in 0..16 }
        \cup { k * 65536 + 65535 : k \in 0..16 }

\* html._replace_charref, numeric branch; html._invalid_charrefs maps 0 to
\* U+FFFD, 13 to a carriage return and 128..159 to their cp1252 characters
\* (the atom "cp1252:<n>" here)
NumericCharRef(num) ==
    IF num = 0 THEN <<Chr(65533)>>
    ELSE IF num = 13 THEN <<"\r">>
    ELSE IF num \in 128..159 THEN <<"cp1252:" \o ToString(num)>>
    ELSE IF num \in 55296..57343 \/ num > 1114111 THEN <<Chr(65533)>>
    ELSE IF num \in InvalidCodepoints THEN << >>
    ELSE <<Chr(num)>>

RECURSIVE LongestName(_, _)
\* html._replace_charref, named branch, for a name g that is no entity: the
\* longest prefix g[:x], len(g)-1 >= x >= 2, that is one, followed by the rest
LongestName(g, x) ==
    IF x < 2 THEN <<"&">> \o g
    ELSE IF SubSeq(g, 1, x) \in DOMAIN Html5
         THEN Html5[SubSeq(g, 1, x)] \o SubSeq(g, x + 1, Len(g))
         ELSE LongestName(g, x - 1)

NamedCharRef(g) ==
    IF g \in DOMAIN Html5 THEN Html5[g] ELSE LongestName(g, Len(g) - 1)

\* [^\t\n\f <&#;]
IsNameChar(c) == c \notin {"\t", "\n", "\f", " ", "<", "&", "#", ";"}

RECURSIVE NameEnd(_, _, _)
\* the end of the greedy run [^\t\n\f <&#;]{1,32} that starts at i
NameEnd(s, i, n) ==
    IF n < 32 /\ i <= Len(s) /\ IsNameChar(s[i])
    THEN NameEnd(s, i + 1, n + 1) ELSE i

\* the position after an optional ';' at j
Semi(s, j) == IF j <= Len(s) /\ s[j] = ";" THEN j + 1 ELSE j

RECURSIVE Unescape(_, _)
\* html.unescape: _charref.sub(_replace_charref, s) with
\* _charref = &(#[0-9]+;?|#[xX][0-9a-fA-F]+;?|[^\t\n\f <&#;]{1,32};?)
Unescape(s, i) ==
    IF i > Len(s) THEN << >>
    ELSE IF s[i] # "&" THEN <<s[i]>> \o Unescape(s, i + 1)
    ELSE LET dec == AsciiDigitEnd(s, i + 2)
             hex == HexEnd(s, i + 3)
             nam == NameEnd(s, i + 1, 0)
         IN  IF StartsAt(s, i + 1, <<"#">>) /\ dec > i + 2
             THEN NumericCharRef(DecValue(s, i + 2, dec))
                      \o Unescape(s, Semi(s, dec))
             ELSE IF /\ StartsAt(s, i + 1, <<"#">>)
                     /\ i + 2 <= Len(s) /\ s[i + 2] \in {"x", "X"}
                     /\ hex > i + 3
             THEN NumericCharRef(HexValue(s, i + 3, hex))
                      \o Unescape(s, Semi(s, hex))
             ELSE IF nam > i + 1
             THEN NamedCharRef(SubSeq(s, i + 1, Semi(s, nam) - 1))
                      \o Unescape(s, Semi(s, nam))
             ELSE <<"&">> \o Unescape(s, i + 1)

-----------------------------------------------------------------------------
(* whitespace *)

RECURSIVE CollapseSpaces(_, _)
\* re.sub(r'(?<!\n)\s+', ' ', text)
CollapseSpaces(s, i) ==
    IF i > Len(s) THEN << >>
    ELSE IF IsSpace(s[i]) /\ (i = 1 \/ s[i - 1] # "\n")
         THEN <<" ">> \o CollapseSpaces(s, SpaceEnd(s, i))
         ELSE <<s[i]>> \o CollapseSpaces(s, i + 1)

RECURSIVE LastNonSpace(_, _)
LastNonSpace(s, j) ==
    IF j >= 1 /\ IsSpace(s[j]) THEN LastNonSpace(s, j - 1) ELSE j

\* text.strip()
Strip(s) == SubSeq(s, SpaceEnd(s, 1), LastNonSpace(s, Len(s)))

-----------------------------------------------------------------------------
(* escape_text *)

\* the last steps with the whitespace collapsed and trimmed before the tabs,
\* \uXXXX escapes and entities are decoded
TrimThenDecode(s) ==
    Unescape(DecodeUnicode(ExpandTabs(Strip(CollapseSpaces(s, 1))), 1), 1)

\* the steps after the code blocks are stripped and the lists rewritten
DecodeAndTrim(s) ==
    Strip(CollapseSpaces(Unescape(DecodeUnicode(ExpandTabs(s), 1), 1), 1))

\* the steps up to the list rewriting
StripMarkup(s) ==
    RewriteBullets(RewriteOrdered(StripCodeBlocks(StripBlockquotes(StripLinks(
        StripHeaders(UnescapeHyphens(UnescapeNewlines(StripItalic(StripBold(
            s)))), 1)), 1)), 1), 1)

\* escape_text(text) for a string argument ("if not text: return ''" first)
escape_text(s) == IF s = << >> THEN << >> ELSE DecodeAndTrim(StripMarkup(s))

-----------------------------------------------------------------------------
(* Python values *)

\* dict.get(k, default), and d[k] where the key is known to be there
Get(d, k, default) == IF k \in DOMAIN d THEN d[k] ELSE default

\* pptx.util.Inches(x): English Metric Units
Inches(x) == x * 914400

\* str(cell_data) for a JSON value: a string, an integer, true/false, null
Str(v) ==
    CASE v.t = "str" -> v.s
      [] v.t = "int" -> ToString(v.n)
      [] v.t = "bool" -> (IF v.b THEN "True" ELSE "False")
      [] v.t = "null" -> "None"

\* key in v: for an object its keys, for an array its elements (the arrays
\* here hold objects, never the key), for a number a TypeError
Contains(key, v) ==
    CASE v.kind = "object" -> (IF key \in DOMAIN v.obj THEN "yes" ELSE "no")
      [] v.kind = "array" -> "no"
      [] v.kind = "number" -> "TypeError"

-----------------------------------------------------------------------------
(* The authoring library as generate_pptx uses it *)

\* the placeholders of the default template's layouts 0 (Title Slide: title,
\* subtitle), 1 (Title and Content: title, content) and 5 (Title Only:
\* title), in idx order; slide.placeholders iterates in this order and
\* slide.shapes.title is the first of them
LayoutPlaceholders(layout) == IF layout = 5 THEN 1 ELSE 2

EmptyPlaceholder == [has_text_frame |-> TRUE, text |-> << >>, size |-> 0]

\* prs.slides.add_slide(layout) for request r; src is the input the slide is
\* built from (0 the title slide, k the k-th content slide)
NewSlide(layout, r, src) ==
    [ req |-> r, src |-> src, layout |-> layout,
      placeholders |-> [j \in 1..LayoutPlaceholders(layout) |-> EmptyPlaceholder],
      shapes |-> << >> ]

\* shape.text = t with paragraphs[0].font.size = Pt(size) on placeholder j
SetText(slide, j, t, size) ==
    [slide EXCEPT !.placeholders[j] = [@ EXCEPT !.text = t, !.size = size]]

AddShape(slide, shape) == [slide EXCEPT !.shapes = Append(@, shape)]

\* the members of XL_CHART_TYPE the requests here name
XL_CHART_TYPE == {"COLUMN_CLUSTERED", "BAR_CLUSTERED", "LINE", "PIE"}

\* requests.get(url) followed by raise_for_status(): whether it succeeds
ReachableUrls == {"http://ok/a.png", "http://ok/b.png"}

Fetches(url) == url \in ReachableUrls

Ok(slide) == [raised |-> FALSE, error |-> "", slide |-> slide]

Raise(slide, e) == [raised |-> TRUE, error |-> e, slide |-> slide]

-----------------------------------------------------------------------------
(* generate_pptx: one content slide *)

\* the layout chosen for slide_data
SlideLayout(slide_data) ==
    IF "chart_data" \in DOMAIN slide_data THEN 5
    ELSE IF "table_data" \in DOMAIN slide_data THEN 5
    ELSE 1

UntitledSlide ==
    <<"U", "n", "t", "i", "t", "l", "e", "d", " ", "S", "l", "i", "d", "e">>

\* the title: title_shape.text = escape_text(slide_data.get('title', ...))
SetTitle(slide, slide_data) ==
    SetText(slide, 1, escape_text(Get(slide_data, "title", UntitledSlide)),
            Get(slide_data, "title_font_size", 36))

\* a scan that keeps the last empty placeholder instead of the first
FindLastEmptyPlaceholder(slide) ==
    LET fits == { j \in DOMAIN slide.placeholders :
                    /\ slide.placeholders[j].has_text_frame
                    /\ slide.placeholders[j].text = << >> }
    IN  IF fits = {} THEN 0
        ELSE CHOOSE j \in fits : \A i \in fits : j >= i

\* the loop over slide.placeholders: the first shape with a text frame whose
\* text is ""; 0 when there is none
FindBodyPlaceholder(slide) ==
    LET fits == { j \in DOMAIN slide.placeholders :
                    /\ slide.placeholders[j].has_text_frame
                    /\ slide.placeholders[j].text = << >> }
    IN  IF fits = {} THEN 0
        ELSE CHOOSE j \in fits : \A i \in fits : j <= i

\* the body text, when slide_data has 'body'
SetBody(slide, slide_data) ==
    IF "body" \notin DOMAIN slide_data THEN slide
    ELSE LET j == FindBodyPlaceholder(slide)
         IN  IF j = 0 THEN slide
             ELSE SetText(slide, j, escape_text(slide_data["body"]),
                          Get(slide_data, "body_font_size", 24))

\* one image: the try block of the loop over slide_data['images']; every
\* exception is caught and the slide is left as it was
InsertImage(slide, img_data) ==
    IF "url" \notin DOMAIN img_data THEN slide
    ELSE IF ~Fetches(img_data["url"]) THEN slide
    ELSE AddShape(slide,
            [ kind |-> "picture", url |-> img_data["url"],
              left |-> Inches(Get(img_data, "left", 1)),
              top |-> Inches(Get(img_data, "top", 1)),
              width |-> Inches(Get(img_data, "width", 3)),
              height |-> Inches(Get(img_data, "height", 2)) ])

RECURSIVE InsertImagesFrom(_, _, _)
InsertImagesFrom(slide, images, i) ==
    IF i > Len(images) THEN slide
    ELSE InsertImagesFrom(InsertImage(slide, images[i]), images, i + 1)

\* the images, when slide_data has 'images'
InsertImages(slide, slide_data) ==
    IF "images" \notin DOMAIN slide_data THEN slide
    ELSE InsertImagesFrom(slide, slide_data["images"], 1)

\* a populate loop that writes the first row into every row
TableCellsFirstRow(table_data, rows, cols) ==
    [ r \in 1..rows |->
        [ c \in 1..cols |->
            IF c <= Len(table_data[1]) THEN Str(table_data[1][c]) ELSE "" ] ]

\* the cell texts after the populate loop: cell (r, c) holds str(row[c]) for
\* the cells the rows give and "" elsewhere
TableCells(table_data, rows, cols) ==
    [ r \in 1..rows |->
        [ c \in 1..cols |->
            IF c <= Len(table_data[r]) THEN Str(table_data[r][c]) ELSE "" ] ]

\* the table, when slide_data has 'table_data'.  Nothing here is caught:
\* add_table divides the box by the row and column counts, which the library
\* may refuse for a count of 0 (ZeroDivisionError), and table.cell(r, c)
\* raises IndexError for a cell outside the rows x cols grid
InsertTable(slide, slide_data, grid_ok) ==
    IF "table_data" \notin DOMAIN slide_data THEN Ok(slide)
    ELSE LET table_data == slide_data["table_data"]
             rows == Len(table_data)
             cols == IF table_data # << >> THEN Len(table_data[1]) ELSE 0
             table_position == Get(slide_data, "table_position", << >>)
             shape == [ kind |-> "table", rows |-> rows, cols |-> cols,
                        left |-> Inches(Get(table_position, "left", 1)),
                        top |-> Inches(Get(table_position, "top", 3)),
                        width |-> Inches(Get(table_position, "width", 8)),
                        height |-> Inches(Get(table_position, "height", 2)),
                        cells |-> << >> ]
         IN  IF (rows = 0 \/ cols = 0) /\ ~grid_ok
             THEN Raise(slide, "ZeroDivisionError")
             ELSE IF \E r \in 1..rows : Len(table_data[r]) > cols
             THEN Raise(AddShape(slide, shape), "IndexError")
             ELSE Ok(AddShape(slide,
                     [shape EXCEPT !.cells = TableCells(table_data, rows, cols)]))

\* a chart insertion that lets the AttributeError of an unknown type through
InsertChartUncaught(slide, slide_data) ==
    IF "chart_data" \notin DOMAIN slide_data THEN Ok(slide)
    ELSE LET chart_data == slide_data["chart_data"]
             series == Get(chart_data, "series", << >>)
             type == Get(chart_data, "type", "COLUMN_CLUSTERED")
             chart_position == Get(chart_data, "chart_position", << >>)
         IN  IF \E i \in DOMAIN series : series[i].t # "obj"
             THEN Ok(slide)
             ELSE IF type \notin XL_CHART_TYPE
             THEN Raise(slide, "AttributeError")
             ELSE Ok(AddShape(slide,
                     [ kind |-> "chart", type |-> type,
                       categories |-> Get(chart_data, "categories", << >>),
                       series |-> series,
                       left |-> Inches(Get(chart_position, "left", 1)),
                       top |-> Inches(Get(chart_position, "top", 3)),
                       width |-> Inches(Get(chart_position, "width", 6)),
                       height |-> Inches(Get(chart_position, "height", 4)),
                       has_legend |-> Get(chart_data, "has_legend", TRUE),
                       title |-> Get(chart_data, "title", "") ]))

\* the chart, when slide_data has 'chart_data': the try block; an exception
\* is caught and printed.  series_data.get fails on a series that is no
\* object, getattr(XL_CHART_TYPE, type) on a name that is no member
InsertChart(slide, slide_data) ==
    IF "chart_data" \notin DOMAIN slide_data THEN Ok(slide)
    ELSE LET chart_data == slide_data["chart_data"]
             series == Get(chart_data, "series", << >>)
             type == Get(chart_data, "type", "COLUMN_CLUSTERED")
             chart_position == Get(chart_data, "chart_position", << >>)
         IN  IF \E i \in DOMAIN series : series[i].t # "obj"
             THEN Ok(slide)
             ELSE IF type \notin XL_CHART_TYPE
             THEN Ok(slide)
             ELSE Ok(AddShape(slide,
                     [ kind |-> "chart", type |-> type,
                       categories |-> Get(chart_data, "categories", << >>),
                       series |-> series,
                       left |-> Inches(Get(chart_position, "left", 1)),
                       top |-> Inches(Get(chart_position, "top", 3)),
                       width |-> Inches(Get(chart_position, "width", 6)),
                       height |-> Inches(Get(chart_position, "height", 4)),
                       has_legend |-> Get(chart_data, "has_legend", TRUE),
                       title |-> Get(chart_data, "title", "") ]))

\* the body of the loop over content_slides for the k-th slide of request r
ProcessSlide(slide_data, r, k, grid_ok) ==
    LET titled == SetTitle(NewSlide(SlideLayout(slide_data), r, k), slide_data)
        withImages == InsertImages(SetBody(titled, slide_data), slide_data)
        tabled == InsertTable(withImages, slide_data, grid_ok)
    IN  IF tabled.raised THEN tabled
        ELSE InsertChart(tabled.slide, slide_data)
-----------------------------------------------------------------------------
(* generate_pptx and download_file *)

Requests == 1..NumRequests

\* the values uuid.uuid4() can return
FileIds == 1..(NumRequests + 1)

NoResponse == [status |-> 0, error |-> "", file_id |-> 0]

NoBuffer == [req |-> 0, slides |-> << >>]

NoDownload == [file_id |-> 0, status |-> 0, body |-> NoBuffer]

PresentationTitle ==
    <<"P", "r", "e", "s", "e", "n", "t", "a", "t", "i", "o", "n", " ",
      "T", "i", "t", "l", "e">>

\* return jsonify({'error': ...}), status
Return(r, status, error) ==
    /\ response' = [response EXCEPT ![r] =
                        [status |-> status, error |-> error, file_id |-> 0]]
    /\ pc' = [pc EXCEPT ![r] = "done"]

\* the content_slides of a request that passed the checks
ContentSlides(req) == req.data.obj["slides"].obj["content_slides"]

\* json.loads and the two key checks; the TypeError of "key in <number>" is
\* caught by the outer except
Validate(r) ==
    /\ pc[r] = "received"
    /\ LET req == request[r]
       IN  IF ~req.json
           THEN Return(r, 400, "Invalid JSON in request body")
           ELSE IF Contains("slides", req.data) = "TypeError"
           THEN Return(r, 500, "TypeError")
           ELSE IF Contains("slides", req.data) = "no"
           THEN Return(r, 400, "Invalid input. Must provide slides.")
           ELSE IF Contains("content_slides", req.data.obj["slides"]) = "TypeError"
           THEN Return(r, 500, "TypeError")
           ELSE IF Contains("content_slides", req.data.obj["slides"]) = "no"
           THEN Return(r, 400, "Invalid input. Must provide content_slides.")
           ELSE /\ pc' = [pc EXCEPT ![r] = "validated"]
                /\ UNCHANGED response
    /\ UNCHANGED <<generated_files, request, prs, idx, pptx_buffer, download,
                   zero_grid_ok>>
    /\ UNCHANGED nvars

\* the title slide of title_slide_data: layout 0, the title in the title
\* shape, the subtitle (when given) in placeholders[1]
TitleSlide(title_slide_data, r) ==
    LET titled == SetText(NewSlide(0, r, 0), 1,
                      escape_text(Get(title_slide_data, "title", PresentationTitle)),
                      Get(title_slide_data, "title_font_size", 54))
    IN  IF "subtitle" \in DOMAIN title_slide_data
        THEN SetText(titled, 2, escape_text(title_slide_data["subtitle"]),
                     Get(title_slide_data, "subtitle_font_size", 32))
        ELSE titled

\* a deck that puts each new slide first
AddSlideFirst(slides, slide) == <<slide>> \o slides

\* prs.slides.add_slide: the new slide goes last
AddSlide(slides, slide) == Append(slides, slide)

\* prs = Presentation() and the title slide, if 'title_slide' is given
CreatePresentation(r) ==
    /\ pc[r] = "validated"
    /\ LET slides_data == request[r].data.obj["slides"].obj
       IN  prs' = [prs EXCEPT ![r] =
                     IF "title_slide" \in DOMAIN slides_data
                     THEN AddSlide(<< >>, TitleSlide(slides_data["title_slide"], r))
                     ELSE << >>]
    /\ pc' = [pc EXCEPT ![r] = "slides"]
    /\ UNCHANGED <<generated_files, request, idx, pptx_buffer, response,
                   download, zero_grid_ok>>
    /\ UNCHANGED nvars

\* one iteration of the loop over content_slides; an exception that leaves
\* the iteration is caught by the outer except
ContentSlide(r) ==
    /\ pc[r] = "slides"
    /\ idx[r] < Len(ContentSlides(request[r]))
    /\ LET k == idx[r] + 1
           res == ProcessSlide(ContentSlides(request[r])[k], r, k, zero_grid_ok)
       IN  IF res.raised
           THEN /\ Return(r, 500, res.error)
                /\ UNCHANGED <<prs, idx>>
           ELSE /\ prs' = [prs EXCEPT ![r] = AddSlide(@, res.slide)]
                /\ idx' = [idx EXCEPT ![r] = k]
                /\ UNCHANGED <<pc, response>>
    /\ UNCHANGED <<generated_files, request, pptx_buffer, download, zero_grid_ok>>
    /\ UNCHANGED nvars

\* prs.save(pptx_buffer): the buffer holds the document as it is now
Serialize(r, slides) == [req |-> r, slides |-> slides]

\* a save that leaves what it wrote in the registry when it fails
SaveKeepingPartial(r) ==
    /\ pc[r] = "slides"
    /\ idx[r] = Len(ContentSlides(request[r]))
    /\ \E saved \in BOOLEAN :
          IF saved
          THEN /\ pptx_buffer' = [pptx_buffer EXCEPT ![r] = Serialize(r, prs[r])]
               /\ pc' = [pc EXCEPT ![r] = "saved"]
               /\ UNCHANGED <<response, generated_files>>
          ELSE /\ Return(r, 500, "save failed")
               /\ generated_files' = (r :> Serialize(r, prs[r])) @@ generated_files
               /\ UNCHANGED pptx_buffer
    /\ UNCHANGED <<request, prs, idx, download, zero_grid_ok>>
    /\ UNCHANGED nvars

\* the save after the loop; a failure of prs.save is caught by the outer except
Save(r) ==
    /\ pc[r] = "slides"
    /\ idx[r] = Len(ContentSlides(request[r]))
    /\ \E saved \in BOOLEAN :
          IF saved
          THEN /\ pptx_buffer' = [pptx_buffer EXCEPT ![r] = Serialize(r, prs[r])]
               /\ pc' = [pc EXCEPT ![r] = "saved"]
               /\ UNCHANGED response
          ELSE /\ Return(r, 500, "save failed")
               /\ UNCHANGED pptx_buffer
    /\ UNCHANGED <<generated_files, request, prs, idx, download, zero_grid_ok>>
    /\ UNCHANGED nvars

\* ids drawn with no regard to the ids already returned
AnyFileIds(files) == FileIds

\* str(uuid.uuid4()): an id no earlier call returned; every id returned so
\* far is a key of the registry, which never loses a key
NewFileIds(files) == FileIds \ DOMAIN files

\* generated_files[file_id] = pptx_buffer
StoreFile(files, file_id, buffer) == (file_id :> buffer) @@ files

\* the new id, the registry insert and the response with the download link
Store(r) ==
    /\ pc[r] = "saved"
    /\ \E file_id \in NewFileIds(generated_files) :
          /\ generated_files' = StoreFile(generated_files, file_id, pptx_buffer[r])
          /\ response' = [response EXCEPT ![r] =
                             [status |-> 200, error |-> "", file_id |-> file_id]]
    /\ pc' = [pc EXCEPT ![r] = "done"]
    /\ UNCHANGED <<request, prs, idx, pptx_buffer, download, zero_grid_ok>>
    /\ UNCHANGED nvars

\* what /download/<file_id> answers
DownloadResponse(files, file_id) ==
    IF file_id \in DOMAIN files
    THEN [file_id |-> file_id, status |-> 200, body |-> files[file_id]]
    ELSE [file_id |-> file_id, status |-> 404, body |-> NoBuffer]

download_file(file_id) ==
    /\ download' = DownloadResponse(generated_files, file_id)
    /\ UNCHANGED <<generated_files, request, pc, prs, idx, pptx_buffer,
                   response, zero_grid_ok>>
    /\ UNCHANGED nvars

-----------------------------------------------------------------------------
(* The requests posted *)

S(x) == [t |-> "str", s |-> x]

N(x) == [t |-> "int", n |-> x]

TextT == <<"T">>

TextStars == <<"*", "*">>

TextBody == <<"*", "b", "*">>

ImgOk == [url |-> "http://ok/a.png"]

ImgPlaced == [url |-> "http://ok/b.png", left |-> 2, top |-> 2, width |-> 4]

ImgDown == [url |-> "http://down/c.png"]

ImgNoUrl == [left |-> 2]

Table22 == << <<S("a"), S("b")>>, <<S("c"), N(7)>> >>

TableShortRow == << <<S("a"), S("b")>>, <<[t |-> "null"]>> >>

TableLongRow == << <<S("a")>>, <<S("b"), [t |-> "bool", b |-> TRUE]>> >>

TableEmpty == << >>

Position == [left |-> 2, top |-> 2, height |-> 3]

OneSeries == <<[t |-> "obj", name |-> "s", values |-> <<1, 2>>]>>

ChartPie == [type |-> "PIE", categories |-> <<"x", "y">>, series |-> OneSeries]

ChartDefault == [categories |-> <<"x", "y">>, series |-> OneSeries, title |-> "c"]

ChartBadType ==
    [type |-> "NOT_A_REAL_TYPE", categories |-> <<"x", "y">>, series |-> OneSeries]

ChartBadSeries == [type |-> "PIE", series |-> <<[t |-> "str", s |-> "oops"]>>]

\* slides that differ in title and body
TextSlides ==
    { [title |-> TextT],
      [title |-> TextT, body |-> TextBody],
      [title |-> << >>, body |-> TextBody],
      [body |-> TextBody],
      [title |-> TextT, body |-> TextBody, table_data |-> Table22],
      [title |-> TextStars, body |-> TextBody, table_data |-> Table22] }

\* slides that differ in their images, table and chart
ShapeSlides ==
    { [title |-> TextT, images |-> <<ImgDown, ImgPlaced>>],
      [title |-> TextT, table_data |-> TableEmpty],
      [title |-> TextT, table_data |-> Table22, table_position |-> Position],
      [title |-> TextT, table_data |-> TableShortRow],
      [title |-> TextT, table_data |-> TableLongRow],
      [title |-> TextT, chart_data |-> ChartDefault],
      [title |-> TextT, chart_data |-> ChartBadSeries],
      [title |-> TextT, body |-> TextBody, images |-> <<ImgNoUrl, ImgOk>>,
       table_data |-> Table22, chart_data |-> ChartBadType],
      [title |-> TextT, body |-> TextBody, images |-> <<ImgNoUrl, ImgOk>>,
       table_data |-> Table22, chart_data |-> ChartPie],
      [title |-> TextT, table_data |-> TableLongRow, chart_data |-> ChartBadType] }

SlideSpecs == TextSlides \cup ShapeSlides

RECURSIVE SeqsUpTo(_, _)
\* the sequences of at most n elements of set
SeqsUpTo(set, n) ==
    IF n = 0 THEN { << >> }
    ELSE LET shorter == SeqsUpTo(set, n - 1)
         IN  shorter \cup { Append(q, x) : q \in shorter, x \in set }

TitleSlideSpecs ==
    { [title |-> TextStars \o TextT \o TextStars, subtitle |-> TextBody] }

Body(slides) == [json |-> TRUE, data |-> [kind |-> "object", obj |-> [slides |-> slides]]]

\* slides given as an object with content_slides, with or without title_slide
ObjectRequests(specs) ==
    { Body([kind |-> "object", obj |-> [content_slides |-> q]]) :
        q \in SeqsUpTo(specs, MaxSlides) }
    \cup { Body([kind |-> "object", obj |-> [content_slides |-> q, title_slide |-> t]]) :
            q \in SeqsUpTo(specs, MaxSlides), t \in TitleSlideSpecs }

\* slides given as one slide object
SingleSlideRequests(specs) == { Body([kind |-> "object", obj |-> sd]) : sd \in specs }

\* slides given as a list of slide objects
ListRequests(specs) ==
    { Body([kind |-> "array", arr |-> q]) : q \in SeqsUpTo(specs, MaxSlides) }

\* bodies that are no JSON, no object, or an object without a usable 'slides'
BrokenRequests ==
    { [json |-> FALSE],
      [json |-> TRUE, data |-> [kind |-> "number"]],
      [json |-> TRUE, data |-> [kind |-> "object", obj |-> [presentation |-> "x"]]],
      Body([kind |-> "number"]) }

FewSlides == { [title |-> TextT, body |-> TextBody], [title |-> << >>, body |-> TextBody] }

AllRequests ==
    BrokenRequests \cup SingleSlideRequests(FewSlides) \cup ListRequests(FewSlides)
        \cup ObjectRequests(SlideSpecs)

\* the requests of the runs with several requests in flight
ConcurrentRequests ==
    { [json |-> FALSE],
      Body([kind |-> "object", obj |->
              [content_slides |-> <<[title |-> TextT, table_data |-> TableLongRow]>>]]),
      Body([kind |-> "object", obj |->
              [content_slides |-> <<[body |-> TextBody],
                                    [title |-> TextT, chart_data |-> ChartBadType]>>,
               title_slide |-> [subtitle |-> TextBody]]]) }

NoRequest == [json |-> FALSE]

-----------------------------------------------------------------------------
(* Specifications *)

NormIdle ==
    /\ text = << >>
    /\ once = << >>
    /\ twice = << >>
    /\ npc = "idle"

ServerStarted ==
    /\ generated_files = << >>
    /\ prs = [r \in Requests |-> << >>]
    /\ idx = [r \in Requests |-> 0]
    /\ pptx_buffer = [r \in Requests |-> NoBuffer]
    /\ response = [r \in Requests |-> NoResponse]
    /\ download = NoDownload

\* one request, of any of the shapes
Init ==
    /\ NormIdle
    /\ ServerStarted
    /\ zero_grid_ok \in BOOLEAN
    /\ \E body \in AllRequests :
          request = [r \in Requests |-> IF r = 1 THEN body ELSE NoRequest]
    /\ pc = [r \in Requests |-> IF r = 1 THEN "received" ELSE "none"]

Next ==
    \/ \E r \in Requests : Validate(r)
    \/ \E r \in Requests : CreatePresentation(r)
    \/ \E r \in Requests : ContentSlide(r)
    \/ \E r \in Requests : Save(r)
    \/ \E r \in Requests : Store(r)

Spec == Init /\ [][Next]_vars

\* several requests in flight, and downloads
InitConcurrent ==
    /\ NormIdle
    /\ ServerStarted
    /\ zero_grid_ok \in BOOLEAN
    /\ request \in [Requests -> ConcurrentRequests]
    /\ pc = [r \in Requests |-> "received"]

NextConcurrent ==
    \/ \E r \in Requests : Validate(r)
    \/ \E r \in Requests : CreatePresentation(r)
    \/ \E r \in Requests : ContentSlide(r)
    \/ \E r \in Requests : Save(r)
    \/ \E r \in Requests : Store(r)
    \/ \E file_id \in FileIds : download_file(file_id)

SpecConcurrent == InitConcurrent /\ [][NextConcurrent]_vars
-----------------------------------------------------------------------------
(* The normalizer applied twice to one input *)

Tokens ==
    { <<"a">>, <<" ">>, <<"\n">>, <<"*">>, <<"#">>, <<">">>,
      <<Backtick, Backtick, Backtick>>, <<"2", ".">>,
      <<"\\", "\\", "-">>, <<"\\", "t">>,
      <<"\\", "u", "0", "0", "2", "3">>,
      <<"&", "a", "m", "p", ";">>, <<"a", "m", "p", ";">>,
      <<"&", "#", "3", "2", ";">> }

RECURSIVE TokenTexts(_)
\* the texts made of at most n tokens
TokenTexts(n) ==
    IF n = 0 THEN { << >> }
    ELSE LET shorter == TokenTexts(n - 1)
         IN  shorter \cup { t \o tok : t \in shorter, tok \in Tokens }

Inputs == TokenTexts(MaxTokens)

RequestsIdle ==
    /\ ServerStarted
    /\ zero_grid_ok = TRUE
    /\ request = [r \in Requests |-> NoRequest]
    /\ pc = [r \in Requests |-> "none"]

InitNorm ==
    /\ text \in Inputs
    /\ once = << >>
    /\ twice = << >>
    /\ npc = "raw"
    /\ RequestsIdle

NormalizeOnce ==
    /\ npc = "raw"
    /\ once' = escape_text(text)
    /\ npc' = "once"
    /\ UNCHANGED <<text, twice>>
    /\ UNCHANGED rvars

NormalizeTwice ==
    /\ npc = "once"
    /\ twice' = escape_text(once)
    /\ npc' = "twice"
    /\ UNCHANGED <<text, once>>
    /\ UNCHANGED rvars

NextNorm == NormalizeOnce \/ NormalizeTwice

SpecNorm == InitNorm /\ [][NextNorm]_vars

-----------------------------------------------------------------------------
(* Reading a run *)

HasSlides(req) ==
    /\ req.json
    /\ req.data.kind = "object"
    /\ "slides" \in DOMAIN req.data.obj

\* slides is an object with content_slides
IsStructured(req) ==
    /\ HasSlides(req)
    /\ req.data.obj["slides"].kind = "object"
    /\ "content_slides" \in DOMAIN req.data.obj["slides"].obj

\* slides is one slide object
IsSingleSlide(req) ==
    /\ HasSlides(req)
    /\ req.data.obj["slides"].kind = "object"
    /\ "content_slides" \notin DOMAIN req.data.obj["slides"].obj

\* slides is a list of slide objects
IsFlatList(req) ==
    /\ HasSlides(req)
    /\ req.data.obj["slides"].kind = "array"

\* the slide objects a request supplies, whichever way
Supplied(req) ==
    IF IsStructured(req) THEN ContentSlides(req)
    ELSE IF IsFlatList(req) THEN req.data.obj["slides"].arr
    ELSE <<req.data.obj["slides"].obj>>

HasTitleSlide(req) == "title_slide" \in DOMAIN req.data.obj["slides"].obj

Finished(r) == pc[r] = "done"

Succeeded(r) == pc[r] = "done" /\ response[r].status = 200

\* the document stored for a request that succeeded
StoredSlides(r) == generated_files[response[r].file_id].slides

\* the slide built from the k-th content slide, for k <= idx[r]
Built(r, k) == prs[r][Len(prs[r]) - idx[r] + k]

\* the request ended with the error raised while the k-th content slide was
\* being built
FailedAt(r, k) ==
    /\ pc[r] = "done"
    /\ response[r].status = 500
    /\ k = idx[r] + 1

Without(slide_data, key) ==
    [x \in DOMAIN slide_data \ {key} |-> slide_data[x]]

NotChart(shape) == shape.kind # "chart"

\* the shapes of slide of one kind, in the order they were added
Shapes(slide, kind) ==
    SelectSeq(slide.shapes, LAMBDA shape : shape.kind = kind)

-----------------------------------------------------------------------------
(* C1 *)

\* C1: a failure while inserting one image, table or chart is caught at that
\* shape: a request whose slides object has content_slides and whose save
\* succeeds ends with status 200, every content slide processed and the
\* document stored.
C1_ShapeFailuresIsolated ==
    \A r \in Requests :
        (/\ Finished(r)
         /\ IsStructured(request[r])
         /\ response[r].error # "save failed")
        => /\ response[r].status = 200
           /\ idx[r] = Len(ContentSlides(request[r]))
           /\ response[r].file_id \in DOMAIN generated_files

-----------------------------------------------------------------------------
(* C2 *)

\* C2: slides is accepted as an object with content_slides, as one slide
\* object and as a list of slide objects: none of the three is answered 400,
\* and a request that succeeds stores one content slide per slide object.
C2_AllShapesAccepted ==
    \A r \in Requests :
        (/\ Finished(r)
         /\ \/ IsStructured(request[r])
            \/ IsSingleSlide(request[r])
            \/ IsFlatList(request[r]))
        => /\ response[r].status # 400
           /\ response[r].status = 200 =>
                Len(SelectSeq(StoredSlides(r), LAMBDA s : s.src > 0))
                    = Len(Supplied(request[r]))

-----------------------------------------------------------------------------
(* C3 *)

\* C3: the document of a request that succeeded holds the title slide first
\* if and only if title_slide is given, then one slide per element of
\* content_slides, in the order of the list.
C3_SlideOrder ==
    \A r \in Requests :
        Succeeded(r) =>
            LET content == ContentSlides(request[r])
                doc == StoredSlides(r)
                off == IF HasTitleSlide(request[r]) THEN 1 ELSE 0
            IN  /\ Len(doc) = off + Len(content)
                /\ off = 1 => doc[1].src = 0 /\ doc[1].layout = 0
                /\ \A k \in 1..Len(content) :
                      /\ doc[off + k].src = k
                      /\ doc[off + k].layout = SlideLayout(content[k])

C3_Witness ==
    \E r \in Requests :
        /\ Succeeded(r)
        /\ HasTitleSlide(request[r])
        /\ Len(ContentSlides(request[r])) = 2
        /\ ContentSlides(request[r])[1] # ContentSlides(request[r])[2]

-----------------------------------------------------------------------------
(* C4 *)

\* C4: a request that ends in an error returns no download link and leaves no
\* entry in the registry; an entry of the registry holds the complete
\* document of its request (title slide and every content slide), and that
\* request has returned its id.
C4_NoPartialResult ==
    /\ \A r \in Requests :
          (Finished(r) /\ response[r].status # 200)
          => /\ response[r].file_id = 0
             /\ \A id \in DOMAIN generated_files : generated_files[id].req # r
    /\ \A id \in DOMAIN generated_files :
          LET r == generated_files[id].req
          IN  /\ Succeeded(r)
              /\ response[r].file_id = id
              /\ generated_files[id].slides = prs[r]
              /\ idx[r] = Len(ContentSlides(request[r]))
              /\ Len(prs[r]) = idx[r] + (IF HasTitleSlide(request[r]) THEN 1 ELSE 0)

\* a save that failed after slides were built
C4_Witness ==
    \E r \in Requests :
        /\ Finished(r)
        /\ response[r].error = "save failed"
        /\ Len(prs[r]) >= 2
        /\ generated_files = << >>

-----------------------------------------------------------------------------
(* C5 *)

HasBadChartType(slide_data) ==
    /\ "chart_data" \in DOMAIN slide_data
    /\ "type" \in DOMAIN slide_data["chart_data"]
    /\ slide_data["chart_data"]["type"] \notin XL_CHART_TYPE

\* the same slide with a chart type the library knows
WithKnownChartType(slide_data) ==
    [slide_data EXCEPT !["chart_data"] = [@ EXCEPT !["type"] = "PIE"]]

WithoutCharts(slide) == [slide EXCEPT !.shapes = SelectSeq(@, NotChart)]

\* C5: a chart whose type is no member of XL_CHART_TYPE costs the slide its
\* chart and nothing else: the slide built is the slide the same input with
\* a known chart type gives, less the chart, and the request fails while
\* building that slide only if it fails for the known type too.
C5_UnknownChartType ==
    \A r \in Requests :
        IsStructured(request[r]) =>
            \A k \in 1..Len(ContentSlides(request[r])) :
                LET slide_data == ContentSlides(request[r])[k]
                    known == ProcessSlide(WithKnownChartType(slide_data), r, k,
                                          zero_grid_ok)
                IN  HasBadChartType(slide_data) =>
                        /\ k <= idx[r] =>
                              /\ ~known.raised
                              /\ Built(r, k) = WithoutCharts(known.slide)
                              /\ Shapes(known.slide, "chart") # << >>
                        /\ FailedAt(r, k) =>
                              known.raised /\ known.error = response[r].error

\* a stored document whose first slide lost its chart and kept its title,
\* body, picture and table, followed by a second slide
C5_Witness ==
    \E r \in Requests :
        /\ Succeeded(r)
        /\ Len(ContentSlides(request[r])) = 2
        /\ HasBadChartType(ContentSlides(request[r])[1])
        /\ "images" \in DOMAIN ContentSlides(request[r])[1]
        /\ Len(StoredSlides(r)[1].shapes) = 2
        /\ Len(StoredSlides(r)) = 2
-----------------------------------------------------------------------------
(* C6 *)

\* what the claim says of the table built from slide_data on slide: its
\* counts, a cell for every input value, and the default box when no
\* table_position is given
TableAsGiven(slide, slide_data) ==
    LET table_data == slide_data["table_data"]
        tables == Shapes(slide, "table")
    IN  /\ Len(tables) = 1
        /\ tables[1].rows = Len(table_data)
        /\ tables[1].cols = (IF table_data = << >> THEN 0 ELSE Len(table_data[1]))
        /\ \A r \in 1..Len(table_data) :
              \A c \in 1..Len(table_data[r]) :
                  /\ r \in DOMAIN tables[1].cells
                  /\ c \in DOMAIN tables[1].cells[r]
                  /\ tables[1].cells[r][c] = Str(table_data[r][c])
        /\ "table_position" \notin DOMAIN slide_data =>
              /\ tables[1].left = Inches(1)
              /\ tables[1].top = Inches(3)
              /\ tables[1].width = Inches(8)
              /\ tables[1].height = Inches(2)

FitsGrid(table_data) ==
    /\ table_data # << >>
    /\ table_data[1] # << >>
    /\ \A r \in 1..Len(table_data) : Len(table_data[r]) <= Len(table_data[1])

-----------------------------------------------------------------------------
(* C7 *)

\* C7 as claimed: escape_text(escape_text(x)) = escape_text(x) for every x.
C7_Idempotent == npc = "twice" => twice = once

MarkupChars == {"*", "#", ">", Backtick, "\\", "&"}

\* a text with none of the characters * # > backtick backslash & and no
\* leading digits followed by a full stop
IsPlain(s) ==
    /\ \A i \in 1..Len(s) : s[i] \notin MarkupChars
    /\ ~(DigitEnd(s, 1) > 1 /\ DigitEnd(s, 1) <= Len(s) /\ s[DigitEnd(s, 1)] = ".")

\* C7 amended: escape_text(escape_text(x)) = escape_text(x) for every x whose
\* escape_text(x) holds none of the characters * # > backtick backslash &
\* and does not begin with digits followed by a full stop.
C7_IdempotentOnPlain == (npc = "twice" /\ IsPlain(once)) => twice = once

\* a text the first call rewrote into a plain, non-empty one
C7_Witness ==
    /\ npc = "twice"
    /\ IsPlain(once)
    /\ once # << >>
    /\ once # text
    /\ \E i \in 1..Len(text) : text[i] \in MarkupChars

-----------------------------------------------------------------------------
(* C8 *)

\* the placeholders of slide that have a text frame and no text
EmptyRegions(slide) ==
    { j \in DOMAIN slide.placeholders :
        /\ slide.placeholders[j].has_text_frame
        /\ slide.placeholders[j].text = << >> }

\* C8: with 'body' given, the body text goes to the first placeholder, in
\* placeholder order, that has a text frame and held no text when the title
\* had been set, and to no other; when there is none the slide is the slide
\* the same input without 'body' gives; and the request fails while building
\* the slide only if it fails without 'body' too.
C8_BodyFirstMatch ==
    \A r \in Requests :
        IsStructured(request[r]) =>
            \A k \in 1..Len(ContentSlides(request[r])) :
                LET slide_data == ContentSlides(request[r])[k]
                    nobody == ProcessSlide(Without(slide_data, "body"), r, k,
                                           zero_grid_ok)
                    free == EmptyRegions(nobody.slide)
                IN  "body" \in DOMAIN slide_data =>
                        /\ FailedAt(r, k) => nobody.raised
                        /\ (k <= idx[r] /\ free = {}) => Built(r, k) = nobody.slide
                        /\ (k <= idx[r] /\ free # {}) =>
                              /\ Built(r, k).shapes = nobody.slide.shapes
                              /\ \A j \in DOMAIN Built(r, k).placeholders :
                                    IF j \in free /\ \A i \in free : j <= i
                                    THEN Built(r, k).placeholders[j].text
                                            = escape_text(slide_data["body"])
                                    ELSE Built(r, k).placeholders[j]
                                            = nobody.slide.placeholders[j]

\* a stored document with a slide whose body went to the second placeholder
\* and a slide whose body was dropped
C8_Witness ==
    \E r \in Requests :
        /\ Succeeded(r)
        /\ idx[r] = 2
        /\ "body" \in DOMAIN ContentSlides(request[r])[1]
        /\ Built(r, 1).placeholders[1].text = TextT
        /\ Built(r, 1).placeholders[2].text = <<"b">>
        /\ "body" \in DOMAIN ContentSlides(request[r])[2]
        /\ Built(r, 2).layout = 5
        /\ Built(r, 2).placeholders[1].text = TextT

-----------------------------------------------------------------------------
(* C9 *)

\* what holds of every state of concurrent requests
OwnDocuments ==
    /\ \A r \in Requests :
          /\ \A i \in 1..Len(prs[r]) : prs[r][i].req = r
          /\ Succeeded(r) =>
                /\ response[r].file_id \in DOMAIN generated_files
                /\ generated_files[response[r].file_id] = Serialize(r, prs[r])
    /\ \A r1, r2 \in Requests :
          (Succeeded(r1) /\ Succeeded(r2) /\ r1 # r2)
          => response[r1].file_id # response[r2].file_id

\* what holds of every step of concurrent requests
EntriesKept ==
    /\ \A id \in DOMAIN generated_files :
          /\ id \in DOMAIN generated_files'
          /\ generated_files'[id] = generated_files[id]
    /\ \A id \in FileIds :
          (download_file(id) /\ id \notin DOMAIN generated_files)
          => /\ download'.status = 404
             /\ generated_files' = generated_files

\* C9: in every interleaving of generate_pptx and download_file requests, a
\* request's presentation holds only slides built from its own input, the id
\* it returns maps to its own serialized document, ids of different requests
\* differ, no step changes or removes an entry of the registry, and a
\* download of an id not in the registry answers 404 and changes nothing.
C9_RequestIndependence == []OwnDocuments /\ [][EntriesKept]_vars

\* two requests stored their documents and a download was answered 404
C9_Witness ==
    /\ \E r1, r2 \in Requests :
          /\ r1 # r2
          /\ Succeeded(r1)
          /\ Succeeded(r2)
          /\ Len(prs[r1]) >= 1
          /\ Len(prs[r2]) >= 1
    /\ download.status = 404

-----------------------------------------------------------------------------
(* C10 *)

\* C10: after a content slide is built its title region holds the normalized
\* title (or "Untitled Slide" when no title is given), never the body text.
C10_TitleRegionKeepsTitle ==
    \A r \in Requests :
        IsStructured(request[r]) =>
            \A k \in 1..idx[r] :
                Built(r, k).placeholders[1].text
                    = escape_text(Get(ContentSlides(request[r])[k], "title",
                                      UntitledSlide))
=============================================================================
